---- MODULE Spec2Model ----
(***************************************************************************)
(* Model of src/table-to-geobuf.ts: the zx script that exports a PostGIS   *)
(* table in chunks (tableToGeojsonChunksOgr2ogr), merges the chunk files   *)
(* (mergeGeojson) and converts the merged file to Geobuf                   *)
(* (geojsonToGeobuf).  Strings are sequences of one-character strings, so  *)
(* that parseInt, trim, split, template literals and glob matching are     *)
(* computed as the code and the tools compute them.                        *)
(***************************************************************************)
EXTENDS Integers, Sequences, FiniteSets, Bags, TLC

(***************************************************************************)
(* Bounds of the model.                                                    *)
(***************************************************************************)
MaxRows == 10

MaxId == 3

MaxRestartId == 2

MaxRuns == 2

MaxEmit == 12

(***************************************************************************)
(* Characters and strings.                                                 *)
(***************************************************************************)
Digits == <<"0", "1", "2", "3", "4", "5", "6", "7", "8", "9">>

IsDigit(c) == \E i \in 1..10 : Digits[i] = c

DigitVal(c) == (CHOOSE i \in 1..10 : Digits[i] = c) - 1

IsSpace(c) == c \in {" ", "\n", "\t"}

\* JavaScript numbers as far as the script uses them: an integer or NaN.
Num(n) == [nan |-> FALSE, v |-> n]

NaN == [nan |-> TRUE, v |-> 0]

\* String.prototype.trim()
RECURSIVE TrimStart(_)
TrimStart(s) ==
  IF s # <<>> /\ IsSpace(Head(s)) THEN TrimStart(Tail(s)) ELSE s

RECURSIVE TrimEnd(_)
TrimEnd(s) ==
  IF s # <<>> /\ IsSpace(s[Len(s)]) THEN TrimEnd(SubSeq(s, 1, Len(s) - 1)) ELSE s

Trim(s) == TrimEnd(TrimStart(s))

\* The value of the longest prefix of decimal digits of s, continuing acc.
RECURSIVE DigitsValue(_, _)
DigitsValue(s, acc) ==
  IF s # <<>> /\ IsDigit(Head(s))
    THEN DigitsValue(Tail(s), 10 * acc + DigitVal(Head(s)))
    ELSE acc

\* parseInt(s): leading white space is skipped, an optional sign is read,
\* then the longest prefix of digits; NaN when there is no digit.
parseIntBody(t) ==
  LET neg  == t # <<>> /\ Head(t) = "-"
      sgn  == t # <<>> /\ Head(t) \in {"-", "+"}
      body == IF sgn THEN Tail(t) ELSE t
  IN  IF body = <<>> \/ ~IsDigit(Head(body))
        THEN NaN
        ELSE Num(IF neg THEN 0 - DigitsValue(body, 0) ELSE DigitsValue(body, 0))

parseInt(s) == parseIntBody(TrimStart(s))

\* Decimal digits of a natural number.
RECURSIVE NatToString(_)
NatToString(n) ==
  IF n < 10 THEN <<Digits[n + 1]>>
  ELSE NatToString(n \div 10) \o <<Digits[(n % 10) + 1]>>

\* `${x}` for a number x in a template literal.
NumToString(x) ==
  IF x.nan THEN <<"N", "a", "N">>
  ELSE IF x.v < 0 THEN <<"-">> \o NatToString(0 - x.v)
  ELSE NatToString(x.v)

\* s starts with t
StartsWith(s, t) == Len(s) >= Len(t) /\ SubSeq(s, 1, Len(t)) = t

\* s.split(sep)[0]: the part of s before the first occurrence of sep, the
\* whole of s when sep does not occur.
RECURSIVE SplitFirst(_, _)
SplitFirst(s, sep) ==
  IF s = <<>> \/ StartsWith(s, sep) THEN <<>>
  ELSE <<Head(s)>> \o SplitFirst(Tail(s), sep)

\* Shell pattern matching with the wildcard *, as done by glob.glob in
\* ogrmerge.py and by find -name.
RECURSIVE GlobMatch(_, _)
GlobMatch(p, s) ==
  IF p = <<>> THEN s = <<>>
  ELSE IF Head(p) = "*"
    THEN GlobMatch(Tail(p), s) \/ (s # <<>> /\ GlobMatch(p, Tail(s)))
    ELSE s # <<>> /\ Head(s) = Head(p) /\ GlobMatch(Tail(p), Tail(s))

\* JavaScript a > b and a + b on numbers
Gt(a, b) == ~a.nan /\ ~b.nan /\ a.v > b.v

Add(a, b) == IF a.nan \/ b.nan THEN NaN ELSE Num(a.v + b.v)


(***************************************************************************)
(* The program's constants and inputs.                                     *)
(***************************************************************************)
\* const filePath = 'layer.geojson'
filePath == <<"l", "a", "y", "e", "r", ".", "g", "e", "o", "j", "s", "o", "n">>

geojsonExt == <<".", "g", "e", "o", "j", "s", "o", "n">>

gbfExt == <<".", "g", "b", "f">>

\* the default of CHUNK_SIZE, '1000000'
DefaultChunkSize == <<"1", "0", "0", "0", "0", "0", "0">>

\* process.env.CHUNK_SIZE: unset, or a string
EnvUnset == [defined |-> FALSE, value |-> <<>>]

EnvStr(s) == [defined |-> TRUE, value |-> s]

ChunkSizeEnvs ==
  { EnvUnset, EnvStr(<<>>), EnvStr(<<"0">>), EnvStr(<<"1">>), EnvStr(<<"2">>),
    EnvStr(<<"3">>), EnvStr(<<"4">>), EnvStr(<<"-", "1">>), EnvStr(<<"x">>),
    EnvStr(<<"2", "x">>) }

RestartEnvs ==
  { EnvUnset, EnvStr(<<"1">>), EnvStr(<<"2">>), EnvStr(<<"3">>) }

\* The tables of a run: the set of the identifier values of its rows (the
\* identifier column is the table's key, so a row is its identifier).
Tables == { 1..r : r \in 0..MaxRows } \cup (SUBSET (1..MaxId))

RestartTables == SUBSET (1..MaxRestartId)

\* a || b on strings: b when a is undefined or empty
OrDefault(e, d) == IF e.defined /\ e.value # <<>> THEN e.value ELSE d

\* const chunkSize = parseInt(process.env.CHUNK_SIZE || '1000000')
ChunkSizeOf(e) == parseInt(OrDefault(e, DefaultChunkSize))

\* const geomColumn = process.env.GEOM_COLUMN || 'geom', and const idColumn =
\* process.env.ID_COLUMN || 'id', with the variables unset
geomColumn == "geom"

idColumn == "id"

\* The column sets of the table: the identifier, the geometry, and others.
ColumnSets == { {idColumn, geomColumn} \cup S : S \in SUBSET {"name", "pop"} }

RestartColumns == {idColumn, geomColumn, "name"}

(***************************************************************************)
(* The database.                                                           *)
(***************************************************************************)
Min(S) == CHOOSE x \in S : \A y \in S : x <= y

\* ORDER BY id DESC
Max(S) == CHOOSE x \in S : \A y \in S : x >= y

RECURSIVE SortedIdsDesc(_)
SortedIdsDesc(S) ==
  IF S = {} THEN <<>> ELSE <<Max(S)>> \o SortedIdsDesc(S \ {Max(S)})

\* ORDER BY id
RECURSIVE SortedIds(_)
SortedIds(S) ==
  IF S = {} THEN <<>> ELSE <<Min(S)>> \o SortedIds(S \ {Min(S)})

\* what psql -t -c 'SELECT count(*) FROM t' prints for a count of n: the
\* number right-aligned in its column, then an empty line
PsqlCount(n) ==
  LET d == NatToString(n)
  IN  <<" ">> \o [i \in 1..(IF Len(d) < 5 THEN 5 - Len(d) ELSE 0) |-> " "]
        \o d \o <<"\n", "\n">>

\* LIMIT and OFFSET must be non-negative numbers, else the statement fails
ValidPage(limit, off) == ~limit.nan /\ ~off.nan /\ limit.v >= 0 /\ off.v >= 0

\* a page that takes one row more than LIMIT
PageInclusive(t, limit, off) ==
  LET ids == SortedIds(t)
      last == IF off + limit + 1 < Len(ids) THEN off + limit + 1 ELSE Len(ids)
  IN  SubSeq(ids, off + 1, last)

\* SELECT id FROM t ORDER BY id LIMIT limit OFFSET off
Page(t, limit, off) ==
  LET ids == SortedIds(t)
      last == IF off + limit < Len(ids) THEN off + limit ELSE Len(ids)
  IN  SubSeq(ids, off + 1, last)

Range(s) == { s[i] : i \in 1..Len(s) }

\* SELECT * FROM t WHERE id IN (SELECT id ... LIMIT limit OFFSET off)
ChunkRows(t, limit, off) == { r \in t : r \in Range(Page(t, limit, off)) }

\* an export that leaves the identifier column out of the properties
ExportedFieldsNoId(cols) == { c \in cols : c \notin {idColumn, geomColumn} }

\* the property names of the features ogr2ogr writes for SELECT *: every
\* column of the result but the geometry
ExportedFields(cols) == { c \in cols : c # geomColumn }

\* tableToGeobufChunks: properties = the column names filtered by
\* ![idColumn, geomColumn].includes(property)
GeobufProperties(cols) == { c \in cols : c \notin {idColumn, geomColumn} }

\* ... the columns of its SELECT: the geometry, the identifier and the
\* properties; ST_AsGeobuf(features, geomColumn) encodes every column of the
\* row but the geometry as a property of the feature
GeobufFields(cols) ==
  ({geomColumn, idColumn} \cup GeobufProperties(cols)) \ {geomColumn}

\* tableToGeojsonChunks: 'properties', to_jsonb(properties) - geomColumn
GeojsonFields(cols) == cols \ {geomColumn}

(***************************************************************************)
(* File names.                                                             *)
(***************************************************************************)
\* const baseFilePath = filePath.split(".geojson")[0]
baseFilePath == SplitFirst(filePath, geojsonExt)

\* a naming that keeps only the last digit of the offset
partFilePathLastDigit(off) ==
  baseFilePath \o <<"_">>
    \o <<NumToString(off)[Len(NumToString(off))]>> \o geojsonExt

\* const partFilePath = `${baseFilePath}_${offset}.geojson`
partFilePath(off) == baseFilePath \o <<"_">> \o NumToString(off) \o geojsonExt

\* const chunksPattern = `${baseFilePath}_*.geojson`
chunksPattern == baseFilePath \o <<"_", "*">> \o geojsonExt

\* const outputPath = `${baseFilePath}.gbf`
outputPath == baseFilePath \o gbfExt

\* the files of fs whose name matches the pattern
Matching(fs, pat) == { p \in DOMAIN fs : GlobMatch(pat, p) }

\* fs without the files of D
Without(fs, D) == [p \in (DOMAIN fs) \ D |-> fs[p]]

\* fs with file p holding content c
WithFile(fs, p, c) == [q \in (DOMAIN fs) \cup {p} |-> IF q = p THEN c ELSE fs[q]]

\* the property names per file after a step from fs to fs2 that writes
\* features with the property names v: a file created or rewritten gets v
FieldsOf(fs, fs2, fl, v) ==
  [q \in DOMAIN fs2 |->
     IF q \notin DOMAIN fs \/ fs[q] # fs2[q] THEN v ELSE fl[q]]

\* the layer ogrmerge.py -single writes has the fields of all its sources
MergedFields(fl, D) == UNION { fl[p] : p \in D }

\* a complete feature collection written in run r / a partial file
Complete(b, r) == [features |-> b, partial |-> FALSE, run |-> r]

Partial(b, r) == [features |-> b, partial |-> TRUE, run |-> r]

\* the features of all files of D together
RECURSIVE AllFeatures(_, _)
AllFeatures(fs, D) ==
  IF D = {} THEN EmptyBag
  ELSE LET p == CHOOSE q \in D : TRUE
       IN  fs[p].features (+) AllFeatures(fs, D \ {p})

(***************************************************************************)
(* State.                                                                  *)
(***************************************************************************)
VARIABLES
  env,        \* process.env.CHUNK_SIZE of the run
  table,      \* the rows of the table (their identifiers)
  files,      \* the working directory: file name -> content
  pc,         \* the position of the script
  chunkSize,  \* const chunkSize (main script)
  count,      \* const count (tableToGeojsonChunksOgr2ogr)
  offset,     \* let offset (tableToGeojsonChunksOgr2ogr)
  inflight,   \* the external processes spawned and not yet awaited
  exitCode,   \* the exit status, once pc = "exited"
  diag,       \* the "[function] Error" lines logged by the run
  run,        \* the number of the run (1 for the first)
  emitted,    \* history: the offsets whose extraction the run has issued
  invoked,    \* history: the external commands the run has spawned
  failed,     \* history: the external command that failed, or "none"
  stable,     \* history: the table is the one the first run started with
  columns,    \* the names of the columns of the table
  fields      \* file name -> the property names of the features of the file

vars == <<env, table, files, pc, chunkSize, count, offset, inflight,
          exitCode, diag, run, emitted, invoked, failed, stable, columns,
          fields>>

NoFiles == [p \in {} |-> Complete(EmptyBag, 0)]

NoFields == [p \in {} |-> {}]

StartOfRun ==
  /\ pc = "start"
  /\ chunkSize = NaN
  /\ count = NaN
  /\ offset = NaN
  /\ inflight = {}
  /\ exitCode = 0
  /\ diag = <<>>
  /\ emitted = <<>>
  /\ invoked = {}
  /\ failed = "none"

\* one run in an empty working directory
Init ==
  /\ env \in ChunkSizeEnvs
  /\ table \in Tables
  /\ columns \in ColumnSets
  /\ files = NoFiles
  /\ fields = NoFields
  /\ run = 1
  /\ stable = TRUE
  /\ StartOfRun

\* the first of several runs
InitRestart ==
  /\ env \in RestartEnvs
  /\ table \in RestartTables
  /\ columns = RestartColumns
  /\ files = NoFiles
  /\ fields = NoFields
  /\ run = 1
  /\ stable = TRUE
  /\ StartOfRun

(***************************************************************************)
(* Steps shared by the handlers.                                           *)
(***************************************************************************)
\* zx spawns the command cmd; the script waits for it at position next
Spawn(cmd, next) ==
  /\ inflight' = inflight \cup {cmd}
  /\ invoked' = invoked \cup {cmd}
  /\ pc' = next

\* a catch block that logs the error and returns instead of exiting
CatchReturn(cmd, fn) ==
  /\ inflight' = inflight \ {cmd}
  /\ failed' = cmd
  /\ diag' = Append(diag, fn)
  /\ exitCode' = exitCode
  /\ pc' = "merge"

\* a catch block that exits with status 0
CatchExitZero(cmd, fn) ==
  /\ inflight' = inflight \ {cmd}
  /\ failed' = cmd
  /\ diag' = Append(diag, fn)
  /\ exitCode' = 0
  /\ pc' = "exited"

\* catch (e) { console.log(`[fn] Error: ${e}`); process.exit(1); }
CatchExit(cmd, fn) ==
  /\ inflight' = inflight \ {cmd}
  /\ failed' = cmd
  /\ diag' = Append(diag, fn)
  /\ exitCode' = 1
  /\ pc' = "exited"

\* a command that is spawned and not awaited: the script goes on at once
NotAwaited(cmd, next) ==
  /\ inflight' = inflight
  /\ pc' = next
  /\ UNCHANGED <<failed, diag, exitCode>>

\* the awaited command cmd has exited with status 0
Awaited(cmd, next) ==
  /\ inflight' = inflight \ {cmd}
  /\ pc' = next
  /\ UNCHANGED <<failed, diag, exitCode>>

\* the loop test written with >= : no chunk at the offset equal to the count
LoopExitGe(off, cnt) == ~off.nan /\ ~cnt.nan /\ off.v >= cnt.v

\* the loop test with a shortcut for an empty table
LoopExitPositive(off, cnt) == Gt(off, cnt) \/ (~cnt.nan /\ cnt.v = 0)

\* while (true) { if (offset > count) break; ... }
LoopExit(off, cnt) == Gt(off, cnt)

(***************************************************************************)
(* tableToGeojsonChunksOgr2ogr                                             *)
(***************************************************************************)
\* the main script's constants, then queryPostgres(`SELECT count(*) ...`)
CountStart ==
  /\ pc = "start"
  /\ chunkSize' = ChunkSizeOf(env)
  /\ Spawn("psql", "count_wait")
  /\ UNCHANGED <<env, table, stable, columns, fields, files, count, offset, exitCode, diag, run,
                 emitted, failed>>

\* psql has exited: count = parseInt(countStr.stdout.trim()); offset = 0
CountDone ==
  /\ pc = "count_wait"
  /\ \/ /\ CatchExit("psql", "queryPostgres")
        /\ UNCHANGED <<count, offset>>
     \/ /\ Awaited("psql", "loop")
        /\ count' = parseInt(Trim(PsqlCount(Cardinality(table))))
        /\ offset' = Num(0)
  /\ UNCHANGED <<env, table, stable, columns, fields, files, chunkSize, run, emitted, invoked>>

\* an Exporter that returns before its loop has ended
ExporterReturnEarly ==
  /\ pc = "loop"
  /\ pc' = "merge"
  /\ UNCHANGED <<env, table, stable, columns, fields, files, chunkSize, count,
                 offset, inflight, exitCode, diag, run, emitted, invoked, failed>>

\* offset > count: break, return filePath; the main script goes on
ExporterReturn ==
  /\ pc = "loop"
  /\ LoopExit(offset, count)
  /\ pc' = "merge"
  /\ UNCHANGED <<env, table, stable, columns, fields, files, chunkSize, count, offset, inflight,
                 exitCode, diag, run, emitted, invoked, failed>>

\* await $`rm -rf ${partFilePath}`
RmStart ==
  /\ pc = "loop"
  /\ ~LoopExit(offset, count)
  /\ Spawn("rm", "rm_wait")
  /\ UNCHANGED <<env, table, stable, columns, fields, files, chunkSize, count, offset, exitCode,
                 diag, run, emitted, failed>>

RmDone ==
  /\ pc = "rm_wait"
  /\ \/ /\ Awaited("rm", "ogr2ogr")
        /\ files' = Without(files, {partFilePath(offset)})
     \/ /\ CatchExit("rm", "tableToGeojsonChunksOgr2ogr")
        /\ UNCHANGED files
  /\ fields' = FieldsOf(files, files', fields, {})
  /\ UNCHANGED <<env, table, stable, columns, chunkSize, count, offset, run, emitted, invoked>>

\* the history of the offsets extracted keeps the first MaxEmit of them
Remember(h, off) == IF Len(h) < MaxEmit THEN Append(h, off) ELSE h

\* await $`ogr2ogr -t_srs EPSG:4326 -f GeoJSON ${partFilePath} ... -sql ...`
Ogr2ogrStart ==
  /\ pc = "ogr2ogr"
  /\ Spawn("ogr2ogr", "ogr2ogr_wait")
  /\ emitted' = Remember(emitted, offset)
  /\ UNCHANGED <<env, table, stable, columns, fields, files, chunkSize, count, offset, exitCode,
                 diag, run, failed>>

\* the file ogr2ogr writes when the statement succeeds
ChunkFile(t, limit, off, r) == Complete(SetToBag(ChunkRows(t, limit.v, off.v)), r)

\* the states of the chunk file a failed ogr2ogr can leave: no file, or a
\* file holding only some of the page's first rows
PartialChunks(t, limit, off, r) ==
  IF ValidPage(limit, off)
    THEN { Partial(SetToBag(Range(SubSeq(Page(t, limit.v, off.v), 1, k))), r) :
             k \in 0..(Len(Page(t, limit.v, off.v)) - 1) }
    ELSE {}

\* offset += chunkSize
NextOffset(off, size) == Add(off, size)

Ogr2ogrDone ==
  /\ pc = "ogr2ogr_wait"
  /\ \/ /\ CatchExit("ogr2ogr", "tableToGeojsonChunksOgr2ogr")
        /\ \/ UNCHANGED files
           \/ \E c \in PartialChunks(table, chunkSize, offset, run) :
                files' = WithFile(files, partFilePath(offset), c)
        /\ UNCHANGED offset
     \/ /\ ValidPage(chunkSize, offset)
        /\ Awaited("ogr2ogr", "loop")
        /\ files' = WithFile(files, partFilePath(offset),
                             ChunkFile(table, chunkSize, offset, run))
        /\ offset' = NextOffset(offset, chunkSize)
  /\ fields' = FieldsOf(files, files', fields, ExportedFields(columns))
  /\ UNCHANGED <<env, table, stable, columns, chunkSize, count, run, emitted, invoked>>

(***************************************************************************)
(* mergeGeojson                                                            *)
(***************************************************************************)
\* the source datasets of ogrmerge.py: the files its glob of the pattern finds
MergeSources(fs) == Matching(fs, chunksPattern)

\* ogrmerge.py -overwrite_ds -single: one layer holding the features of all
\* the source datasets
MergedFile(fs, r) == Complete(AllFeatures(fs, MergeSources(fs)), r)

\* a merge whose failure path cleans the chunk files up
AfterMergeFailureCleanup(fs, r) ==
  { Without(fs, Matching(fs, chunksPattern)) }

\* the working directory after ogrmerge.py has failed: the chunk files are
\* only read; the output is untouched or left incomplete
AfterMergeFailure(fs, r) == { fs, WithFile(fs, filePath, Partial(EmptyBag, r)) }

\* a deletion by the pattern ${baseFilePath}*.geojson
FindDeleteWide(fs) ==
  Without(fs, Matching(fs, baseFilePath \o <<"*">> \o geojsonExt))

\* find . -name ${chunksPattern} -delete, when every removal succeeds
FindDelete(fs) == Without(fs, Matching(fs, chunksPattern))

\* ... and when find exits with a non-zero status: some file was not removed
AfterFindFailure(fs) ==
  { Without(fs, D) : D \in (SUBSET Matching(fs, chunksPattern))
                             \ {Matching(fs, chunksPattern)} }

\* await spinner(..., () => $`ogrmerge.py ... -o ${filePath} ${chunksPattern}`)
MergeStart ==
  /\ pc = "merge"
  /\ Spawn("ogrmerge", "merge_wait")
  /\ UNCHANGED <<env, table, stable, columns, fields, files, chunkSize, count, offset, exitCode,
                 diag, run, emitted, failed>>

\* ogrmerge.py exits with an error when it is given no source dataset
MergeDone ==
  /\ pc = "merge_wait"
  /\ \/ /\ MergeSources(files) # {}
        /\ Awaited("ogrmerge", "find")
        /\ files' = WithFile(files, filePath, MergedFile(files, run))
     \/ /\ CatchExit("ogrmerge", "mergeGeojson")
        /\ files' \in AfterMergeFailure(files, run)
  /\ fields' = FieldsOf(files, files', fields, MergedFields(fields, MergeSources(files)))
  /\ UNCHANGED <<env, table, stable, columns, chunkSize, count, offset, run, emitted, invoked>>

\* await spinner(..., () => $`find . -name ${chunksPattern} -delete`)
FindStart ==
  /\ pc = "find"
  /\ Spawn("find", "find_wait")
  /\ UNCHANGED <<env, table, stable, columns, fields, files, chunkSize, count, offset, exitCode,
                 diag, run, emitted, failed>>

\* a deletion whose failure is ignored
FindDoneIgnoring ==
  /\ pc = "find_wait"
  /\ \/ /\ Awaited("find", "convert")
        /\ files' = FindDelete(files)
     \/ /\ inflight' = inflight \ {"find"}
        /\ failed' = "find"
        /\ pc' = "convert"
        /\ UNCHANGED <<diag, exitCode>>
        /\ files' \in AfterFindFailure(files)
  /\ fields' = FieldsOf(files, files', fields, {})
  /\ UNCHANGED <<env, table, stable, columns, chunkSize, count, offset, run, emitted, invoked>>

FindDone ==
  /\ pc = "find_wait"
  /\ \/ /\ Awaited("find", "convert")
        /\ files' = FindDelete(files)
     \/ /\ CatchExit("find", "mergeGeojson")
        /\ files' \in AfterFindFailure(files)
  /\ fields' = FieldsOf(files, files', fields, {})
  /\ UNCHANGED <<env, table, stable, columns, chunkSize, count, offset, run, emitted, invoked>>

(***************************************************************************)
(* geojsonToGeobuf                                                         *)
(***************************************************************************)
\* $`json2geobuf ${filePath} > ${outputPath}`: the shell opens (creates or
\* truncates) the output before json2geobuf runs
ConvertStart ==
  /\ pc = "convert"
  /\ Spawn("json2geobuf", "convert_wait")
  /\ files' = WithFile(files, outputPath, Partial(EmptyBag, run))
  /\ fields' = FieldsOf(files, files', fields, {})
  /\ UNCHANGED <<env, table, stable, columns, chunkSize, count, offset, exitCode, diag, run,
                 emitted, failed>>

\* json2geobuf has exited; on success the script ends, with status 0
ConvertDone ==
  /\ pc = "convert_wait"
  /\ \/ /\ filePath \in DOMAIN files
        /\ ~files[filePath].partial
        /\ Awaited("json2geobuf", "exited")
        /\ files' = WithFile(files, outputPath,
                             Complete(files[filePath].features, run))
     \/ /\ CatchExit("json2geobuf", "geojsonToGeobuf")
        /\ UNCHANGED files
  /\ fields' = FieldsOf(files, files', fields, IF filePath \in DOMAIN fields THEN fields[filePath] ELSE {})
  /\ UNCHANGED <<env, table, stable, columns, chunkSize, count, offset, run, emitted, invoked>>

(***************************************************************************)
(* A failed or finished run is started again from the beginning.           *)
(***************************************************************************)
Restart ==
  /\ pc = "exited"
  /\ run < MaxRuns
  /\ run' = run + 1
  /\ env' \in RestartEnvs
  /\ table' \in RestartTables
  /\ pc' = "start"
  /\ chunkSize' = NaN
  /\ count' = NaN
  /\ offset' = NaN
  /\ inflight' = {}
  /\ exitCode' = 0
  /\ diag' = <<>>
  /\ emitted' = <<>>
  /\ invoked' = {}
  /\ failed' = "none"
  /\ stable' = (stable /\ table' = table)
  /\ UNCHANGED <<files, fields, columns>>

Next ==
  \/ CountStart
  \/ CountDone
  \/ ExporterReturn
  \/ RmStart
  \/ RmDone
  \/ Ogr2ogrStart
  \/ Ogr2ogrDone
  \/ MergeStart
  \/ MergeDone
  \/ FindStart
  \/ FindDone
  \/ ConvertStart
  \/ ConvertDone

NextRestart == Next \/ Restart

Spec == Init /\ [][Next]_vars

SpecRestart == InitRestart /\ [][NextRestart]_vars

\* The exporter's loop is sequential code: each awaited child process
\* terminates and the statement after an await runs, so every step of the
\* loop that stays possible is eventually taken.
SpecFair ==
  /\ Init
  /\ [][Next]_vars
  /\ WF_vars(RmStart)
  /\ WF_vars(RmDone)
  /\ WF_vars(Ogr2ogrStart)
  /\ WF_vars(Ogr2ogrDone)
  /\ WF_vars(ExporterReturn)

TypeOK ==
  /\ pc \in {"start", "count_wait", "loop", "rm_wait", "ogr2ogr",
             "ogr2ogr_wait", "merge", "merge_wait", "find", "find_wait",
             "convert", "convert_wait", "exited"}
  /\ exitCode \in {0, 1}
  /\ run \in 1..MaxRuns
  /\ Cardinality(inflight) <= 1

(***************************************************************************)
(* Properties.                                                             *)
(***************************************************************************)
\* the Exporter of this run has returned to the main script
ExporterReturned == pc = "merge" \/ "ogrmerge" \in invoked

\* ... and the Merger has not yet deleted anything
ChunksIntact ==
  \/ pc \in {"merge", "merge_wait", "find", "find_wait"}
  \/ (pc = "exited" /\ failed = "ogrmerge")

\* the chunk files written by the extractions of this run
CreatedThisRun == { p \in Matching(files, chunksPattern) : files[p].run = run }

\* the multiples of c in 0..r
MultiplesUpTo(r, c) == { o \in 0..r : o % c = 0 }

\* the rows ranked from..to in identifier order
Ranked(t, from, to) ==
  { r \in t : Cardinality({ q \in t : q <= r }) \in from..to }

\* C1: when the Exporter returns (no extraction has failed), the chunk size
\* is at least 1, the extractions were issued for exactly the offsets that
\* are multiples of the chunk size and at most the row count (the count
\* itself included when it is a multiple), and the chunk files created by
\* the run are the files of exactly these offsets.
C1_ChunkOffsets ==
  ExporterReturned =>
    /\ ~chunkSize.nan /\ chunkSize.v >= 1
    /\ Range(emitted) =
         { Num(o) : o \in MultiplesUpTo(Cardinality(table), chunkSize.v) }
    /\ ChunksIntact =>
         CreatedThisRun =
           { partFilePath(Num(o)) :
               o \in MultiplesUpTo(Cardinality(table), chunkSize.v) }

\* the row count is a multiple of the chunk size and the chunk at the offset
\* equal to the count has been created
C1_Witness ==
  /\ pc = "merge"
  /\ Cardinality(table) = 4
  /\ chunkSize = Num(2)
  /\ Range(emitted) = {Num(0), Num(2), Num(4)}
  /\ partFilePath(Num(4)) \in DOMAIN files

\* C2: when the Exporter has returned, the rows in the chunk files of the
\* run, taken together, are the rows of the table, each exactly once.
C2_PartitionComplete ==
  (ExporterReturned /\ ChunksIntact) =>
    AllFeatures(files, CreatedThisRun) = SetToBag(table)

\* a table with a gap in its identifiers exported in several non-empty chunks
C2_Witness ==
  /\ pc = "merge"
  /\ table = {1, 3}
  /\ chunkSize = Num(1)
  /\ Cardinality({ p \in CreatedThisRun : files[p].features # EmptyBag }) = 2

\* C3: the chunk file written for offset o holds the rows ranked o+1 ..
\* min(o+C, R) in identifier order, that is min(C, R-o) rows; the last chunk
\* of a run holds no row when R is a multiple of C and R mod C rows otherwise.
C3_ChunkContents ==
  /\ \A i \in 1..Len(emitted) :
       LET o == emitted[i]
           p == partFilePath(o)
           R == Cardinality(table)
           hi == IF o.v + chunkSize.v < R THEN o.v + chunkSize.v ELSE R
       IN  (p \in DOMAIN files /\ files[p].run = run /\ ~files[p].partial) =>
             /\ files[p].features = SetToBag(Ranked(table, o.v + 1, hi))
             /\ BagCardinality(files[p].features) =
                  (IF chunkSize.v < R - o.v THEN chunkSize.v ELSE R - o.v)
  /\ (ExporterReturned /\ ChunksIntact) =>
       LET last == partFilePath(emitted[Len(emitted)])
           R == Cardinality(table)
       IN  BagCardinality(files[last].features) = R % chunkSize.v

\* 10 rows in chunks of 4: files at 0, 4 and 8, the one at 8 holding rows 9
\* and 10, and none at 12
C3_Witness ==
  /\ pc = "merge"
  /\ table = 1..10
  /\ chunkSize = Num(4)
  /\ CreatedThisRun = {partFilePath(Num(0)), partFilePath(Num(4)), partFilePath(Num(8))}
  /\ files[partFilePath(Num(8))].features = SetToBag({9, 10})
  /\ partFilePath(Num(12)) \notin DOMAIN files

\* the Merger of this run has returned to the main script
MergerReturned == pc = "convert" \/ "json2geobuf" \in invoked

\* the working directory restricted to the chunk files
ChunkFilesOf(fs) == [p \in Matching(fs, chunksPattern) |-> fs[p]]

\* C4: once the Merger has completed successfully, no file matching the
\* chunk pattern is left and the merged file exists, written by this run.
C4_CleanAfterMerge ==
  MergerReturned =>
    /\ Matching(files, chunksPattern) = {}
    /\ filePath \in DOMAIN files
    /\ ~files[filePath].partial
    /\ files[filePath].run = run

\* the Merger of a second run has completed after several extractions
C4_Witness ==
  /\ pc = "convert"
  /\ run = 2
  /\ Len(emitted) >= 2
  /\ filePath \in DOMAIN files

\* C5: no step taken while the merge tool has not yet succeeded (the Merger
\* is about to run it, or waits for it, or handles its failure and exits)
\* deletes or changes a chunk file.
C5_DeleteOnlyAfterMerge ==
  [][(pc \in {"merge", "merge_wait"}) =>
       (ChunkFilesOf(files)' = ChunkFilesOf(files))]_vars

\* the merge tool has failed and the process has exited, chunk files on disk
C5_Witness ==
  /\ pc = "exited"
  /\ failed = "ogrmerge"
  /\ Cardinality(Matching(files, chunksPattern)) >= 2

\* C6: when an extraction fails the process exits with status 1; the
\* extractions were issued once each, in order, the failed one last; the
\* Merger and the Converter were not invoked; and the files of the earlier
\* chunks (those at another path than the failed chunk's) are on disk,
\* complete.
C6_AbortOnChunkFailure ==
  (pc = "exited" /\ failed = "ogr2ogr") =>
    /\ exitCode = 1
    /\ invoked \cap {"ogrmerge", "find", "json2geobuf"} = {}
    /\ Len(emitted) >= 1
    /\ emitted[1] = Num(0)
    /\ \A i \in 1..(Len(emitted) - 1) : emitted[i + 1] = Add(emitted[i], chunkSize)
    /\ emitted[Len(emitted)] = offset
    /\ \A i \in 1..(Len(emitted) - 1) :
         partFilePath(emitted[i]) # partFilePath(offset) =>
           /\ partFilePath(emitted[i]) \in DOMAIN files
           /\ files[partFilePath(emitted[i])] =
                ChunkFile(table, chunkSize, emitted[i], run)

\* the second extraction has failed: chunk 1 and a partial chunk 2 on disk
C6_Witness ==
  /\ pc = "exited"
  /\ failed = "ogr2ogr"
  /\ chunkSize = Num(2)
  /\ Len(emitted) = 2
  /\ partFilePath(Num(0)) \in DOMAIN files
  /\ partFilePath(Num(2)) \in DOMAIN files
  /\ files[partFilePath(Num(2))].partial

\* the function whose catch block handles the failure of a command
DiagnosticOf(cmd) ==
  CASE cmd = "psql" -> "queryPostgres"
    [] cmd \in {"rm", "ogr2ogr"} -> "tableToGeojsonChunksOgr2ogr"
    [] cmd \in {"ogrmerge", "find"} -> "mergeGeojson"
    [] cmd = "json2geobuf" -> "geojsonToGeobuf"

\* C7: an exited process has status 0 exactly when no command of any stage
\* has failed, and then every stage has run; when a command has failed the
\* status is 1 and the one diagnostic logged names the function of the
\* failing stage.
C7_ExitStatus ==
  pc = "exited" =>
    /\ (exitCode = 0) <=> (failed = "none")
    /\ failed = "none" =>
         /\ {"psql", "ogr2ogr", "ogrmerge", "find", "json2geobuf"} \subseteq invoked
         /\ diag = <<>>
         /\ outputPath \in DOMAIN files
         /\ ~files[outputPath].partial
    /\ failed # "none" =>
         /\ exitCode = 1
         /\ diag = <<DiagnosticOf(failed)>>

\* a run of several chunks has ended with status 0
C7_Witness ==
  /\ pc = "exited"
  /\ exitCode = 0
  /\ Len(emitted) >= 3
  /\ BagCardinality(files[outputPath].features) >= 4

\* C8 as stated: a run whose merge tool has succeeded and whose deletion has
\* left chunk files behind has gone on to the Converter.
C8_Original ==
  (pc = "exited" /\ "find" \in invoked /\ Matching(files, chunksPattern) # {}) =>
    "json2geobuf" \in invoked

\* C8, amended: a failed deletion is a failure of the Merger: the process
\* exits with status 1 after logging the mergeGeojson diagnostic, the
\* Converter is never invoked, and the merged file stays on disk with the
\* chunk files that were not deleted.
C8_Amended ==
  (pc = "exited" /\ failed = "find") =>
    /\ exitCode = 1
    /\ diag = <<"mergeGeojson">>
    /\ "json2geobuf" \notin invoked
    /\ filePath \in DOMAIN files
    /\ ~files[filePath].partial
    /\ Matching(files, chunksPattern) # {}

\* the merge tool has succeeded and the deletion has failed
C8_Witness ==
  /\ pc = "exited"
  /\ failed = "find"
  /\ "ogrmerge" \in invoked
  /\ filePath \in DOMAIN files

\* C9: right after a successful merge the merged file holds as many
\* features as the chunk files on disk together, and, the table being the
\* same since the first run, each row of the table exactly once.
C9_MergedFeatures ==
  (pc = "find" /\ stable) =>
    /\ BagCardinality(files[filePath].features) =
         BagCardinality(AllFeatures(files, Matching(files, chunksPattern)))
    /\ files[filePath].features = SetToBag(table)

\* C10: whenever the Merger is invoked the Exporter has issued at least one
\* extraction and the chunk file of offset 0, written by this run, exists.
C10_ChunkBeforeMerge ==
  pc \in {"merge", "merge_wait"} =>
    /\ Len(emitted) >= 1
    /\ partFilePath(Num(0)) \in DOMAIN files
    /\ files[partFilePath(Num(0))].run = run
    /\ ~files[partFilePath(Num(0))].partial
    /\ MergeSources(files) # {}

\* the Merger runs on the export of an empty table
C10_Witness ==
  /\ pc = "merge_wait"
  /\ count = Num(0)
  /\ CreatedThisRun = {partFilePath(Num(0))}

\* C11 as stated: the features of every chunk file of the run have as
\* properties the table's columns without the identifier and the geometry.
C11_Original ==
  \A p \in CreatedThisRun : fields[p] = columns \ {idColumn, geomColumn}

\* C11, amended: the features of every chunk file of the run have as
\* properties the table's columns without the geometry column, the
\* identifier column included, the same set in every chunk of the run; the
\* two other exporters of the script attach the same set.
C11_Amended ==
  /\ \A p \in CreatedThisRun :
       /\ fields[p] = columns \ {geomColumn}
       /\ idColumn \in fields[p]
  /\ \A p, q \in CreatedThisRun : fields[p] = fields[q]
  /\ GeobufFields(columns) = columns \ {geomColumn}
  /\ GeojsonFields(columns) = columns \ {geomColumn}

\* several chunks of a table with two more columns have been exported
C11_Witness ==
  /\ pc = "merge"
  /\ columns = {idColumn, geomColumn, "name", "pop"}
  /\ Cardinality(CreatedThisRun) >= 3
  /\ \A p \in CreatedThisRun : fields[p] = {idColumn, "name", "pop"}

\* the command the script waits for at a position
WaitsFor(p) ==
  CASE p = "count_wait" -> {"psql"}
    [] p = "rm_wait" -> {"rm"}
    [] p = "ogr2ogr_wait" -> {"ogr2ogr"}
    [] p = "merge_wait" -> {"ogrmerge"}
    [] p = "find_wait" -> {"find"}
    [] p = "convert_wait" -> {"json2geobuf"}
    [] OTHER -> {}

\* C12: at most one external process is in flight, and it is the one the
\* script is waiting for; when the script is not waiting none is in flight,
\* so a command is spawned only when the one before it has completed.
C12_OneInFlight ==
  /\ Cardinality(inflight) <= 1
  /\ inflight = WaitsFor(pc)

\* the second extraction is in flight, the first one has completed
C12_Witness ==
  /\ pc = "ogr2ogr_wait"
  /\ inflight = {"ogr2ogr"}
  /\ Len(emitted) = 2
  /\ partFilePath(emitted[1]) \in DOMAIN files

\* the stages in their order; the positions of the Exporter's loop share one
\* rank, every other position has its own
PcRank(p) ==
  CASE p = "start" -> 1
    [] p = "count_wait" -> 2
    [] p \in {"loop", "rm_wait", "ogr2ogr", "ogr2ogr_wait"} -> 3
    [] p = "merge" -> 4
    [] p = "merge_wait" -> 5
    [] p = "find" -> 6
    [] p = "find_wait" -> 7
    [] p = "convert" -> 8
    [] p = "convert_wait" -> 9
    [] p = "exited" -> 10

\* what holds when a stage has started
StartedInOrder ==
  /\ (invoked \cap {"rm", "ogr2ogr"} # {}) =>
       ("psql" \in invoked /\ ~count.nan /\ count.v = Cardinality(table))
  /\ "ogrmerge" \in invoked =>
       /\ "ogr2ogr" \in invoked
       /\ "ogr2ogr" \notin inflight
       /\ Gt(offset, count)
       /\ failed \notin {"psql", "rm", "ogr2ogr"}
  /\ "json2geobuf" \in invoked =>
       /\ {"ogrmerge", "find"} \subseteq invoked
       /\ failed \in {"none", "json2geobuf"}
       /\ filePath \in DOMAIN files
       /\ files[filePath].run = run

\* C13: every step of a run moves the script forward in the order Row
\* Counter, Exporter, Merger (merge, then deletion), Converter, exit; only
\* the Exporter's loop repeats positions; and after every step the stages
\* started so far have started after the success of the stage before.
C13_StageOrder ==
  [][ /\ PcRank(pc') >= PcRank(pc)
      /\ (PcRank(pc') = PcRank(pc)) => (PcRank(pc) = 3)
      /\ StartedInOrder' ]_vars

\* the Converter is running after an export of several chunks
C13_Witness ==
  /\ pc = "convert_wait"
  /\ invoked = {"psql", "rm", "ogr2ogr", "ogrmerge", "find", "json2geobuf"}
  /\ Len(emitted) >= 2

\* C14: once the Exporter has the row count and enters its loop, either a
\* command fails or the loop ends, floor(R/C) + 1 extractions having been
\* issued.
C14_LoopTerminates ==
  (pc = "loop" /\ emitted = <<>>) ~>
    \/ failed # "none"
    \/ /\ ExporterReturned
       /\ Len(emitted) = (Cardinality(table) \div chunkSize.v) + 1

\* C15: once a run has read its configuration the chunk size is a positive
\* integer, and the offsets of the extractions it issues are the multiples
\* 0, C, 2C, ... of the chunk size in this order, each larger than the one
\* before.
C15_ChunkSizePositive ==
  pc # "start" =>
    /\ ~chunkSize.nan
    /\ chunkSize.v >= 1
    /\ \A i \in 1..Len(emitted) : emitted[i] = Num((i - 1) * chunkSize.v)
    /\ \A i \in 1..(Len(emitted) - 1) : Gt(emitted[i + 1], emitted[i])

\* C16: in a run restarted after a failed one, when the Merger is about to
\* read (or is reading) the files matching the chunk naming pattern, every
\* such file was written by the Exporter of this run: none is left over
\* from the failed run.
C16_FreshChunks ==
  (run >= 2 /\ pc \in {"merge", "merge_wait"}) =>
    \A p \in MergeSources(files) : files[p].run = run

\* C17: when the process has exited with status 1, the converted output
\* file has not been created or overwritten by this run: it is absent or
\* still the file of an earlier run.
C17_NoPartialOutput ==
  (pc = "exited" /\ exitCode = 1) =>
    \/ outputPath \notin DOMAIN files
    \/ files[outputPath].run # run

\* C18: within a run the chunk file path is an injective function of the
\* offset: extractions issued for different offsets write to different
\* paths, so that the Exporter leaves one chunk file per offset, and no
\* chunk file path is the path of the merged file or of the converted
\* output file.
C18_UniquePaths ==
  /\ \A i, j \in 1..Len(emitted) :
       emitted[i] # emitted[j] =>
         partFilePath(emitted[i]) # partFilePath(emitted[j])
  /\ \A i \in 1..Len(emitted) :
       partFilePath(emitted[i]) \notin {filePath, outputPath}
  /\ pc = "merge" =>
       Cardinality(CreatedThisRun) = Cardinality(Range(emitted))

C18_Witness ==
  /\ pc = "merge"
  /\ Len(emitted) = 11
  /\ {partFilePath(Num(0)), partFilePath(Num(10))} \subseteq CreatedThisRun

====
